---- MODULE Spec2Model ----
(***************************************************************************)
(* Concept maps of te (include/te/concept_map.hpp).                        *)
(*                                                                         *)
(* A concept map binds operation names to implementations for one         *)
(* (Concept, T) pair.  te::concept_map<Concept, T> and                     *)
(* te::default_concept_map<Concept, T> are variable templates: each       *)
(* specialization is instantiated at most once in a program, and its       *)
(* initializer is a call of make_concept_map / make_default_concept_map.   *)
(* A failed static_assert makes the program ill-formed: the instantiation  *)
(* yields a diagnostic and no concept map, and so does every               *)
(* instantiation that reads it.                                            *)
(***************************************************************************)
EXTENDS Naturals, Sequences, FiniteSets, TLC

VARIABLES
  custom,         \* custom[c]: names the user's concept_map<c, T> binds explicitly
  dflt,           \* dflt[c]: names the author's default_concept_map<c, T> binds explicitly
  refines,        \* refines[c]: Concept::refined_concepts(), in declaration order
  cmap,           \* cmap[c]: the value of te::concept_map<c, T>
  dmap,           \* dmap[c]: the value of te::default_concept_map<c, T>
  constructed,    \* constructed[c]: how often concept_map<c, T> was initialized
  last            \* outcome of the latest call made on the maps

vars == <<custom, dflt, refines, cmap, dmap, constructed, last>>

----------------------------------------------------------------------------
\* Bounds of the model

\* total number of explicit bindings written in all specializations
MaxBindings == 3

\* the same, in the programs that call make_default_concept_map directly
MaxCallBindings == 1

----------------------------------------------------------------------------
\* The closed, statically known world: concepts, names, the model type

Concepts == {"R", "A", "S", "B"}
Names    == {"f", "g"}
T        == "Foo"

\* Concept::own_clauses(): the names a concept requires itself
own_clauses(c) ==
  CASE c = "R" -> {"f"}
    [] c = "A" -> {"g"}
    [] c = "S" -> {"g"}
    [] c = "B" -> {}

\* The two declaration orders of B's refined concepts; A refines R.
RefinementGraphs ==
  { [c \in Concepts |->
       CASE c = "R" -> << >>
         [] c = "A" -> <<"R">>
         [] c = "S" -> << >>
         [] c = "B" -> b ] : b \in { <<"A", "S">>, <<"S", "A">> } }

Range(s) == { s[i] : i \in DOMAIN s }

\* Concept::refined_concepts()
refined_concepts(c) == refines[c]

\* Concept::all_clauses(): own clauses and those of every refined concept,
\* transitively, deduplicated by name.
RECURSIVE all_clauses(_)
all_clauses(c) ==
  own_clauses(c) \cup UNION { all_clauses(r) : r \in Range(refined_concepts(c)) }

----------------------------------------------------------------------------
\* Values

\* An implementation: a stateless function object, identified by the
\* specialization (or call) that wrote it and the name it is bound to.
Impl(c, where, n) == [by |-> c, in |-> where, name |-> n]

EmptyMap == [n \in {} |-> Impl("R", "none", "f")]

\* boost::hana::make_map(mappings...) of the pairs written in a specialization
make_map(c, where, names) == [n \in names |-> Impl(c, where, n)]

\* A variable template specialization that has not been instantiated
NotInstantiated ==
  [st |-> "none", map |-> EmptyMap, concept |-> "", type |-> "", names |-> {}, message |-> ""]

\* te::concept_map_t<Concept, T, decltype(m)...>{m...}
concept_map_t(c, m) ==
  [st |-> "ok", map |-> m, concept |-> c, type |-> T, names |-> {}, message |-> ""]

IncompleteDefinition == "te::make_concept_map: Incomplete definition of the concept map."

\* The failed static_assert of make_concept_map<Concept, T, Name..., Function...>:
\* a fixed message; the instantiation names the concept, the type and the
\* names of the explicit mappings.  No map comes with it.
static_assert_failed(c, mappings) ==
  [st |-> "error", map |-> EmptyMap, concept |-> c, type |-> T,
   names |-> DOMAIN mappings, message |-> IncompleteDefinition]

----------------------------------------------------------------------------
\* detail::merge and the two factories

\* insert that replaces the pair of a key that is present
insert_replacing(map, n, f) ==
  [k \in DOMAIN map \cup {n} |-> IF k = n THEN f ELSE map[k]]

\* boost::hana::insert on a map: a pair whose key is present is dropped
insert(map, n, f) ==
  IF n \in DOMAIN map THEN map
  ELSE [k \in DOMAIN map \cup {n} |-> IF k = n THEN f ELSE map[k]]

\* detail::merge: fold_left(map2, map1, insert).  The keys of map2 are
\* distinct, so the result does not depend on the order of the fold.
RECURSIVE fold_insert(_, _, _)
fold_insert(map1, map2, todo) ==
  IF todo = {} THEN map1
  ELSE LET n == CHOOSE k \in todo : TRUE
       IN fold_insert(insert(map1, n, map2[n]), map2, todo \ {n})

\* merge with its arguments exchanged: the pairs of map2 are kept
merge_exchanged(map1, map2) == fold_insert(map2, map1, DOMAIN map1)

merge(map1, map2) == fold_insert(map1, map2, DOMAIN map2)

\* the fold taken from the right: the refined concept declared last is merged first
RECURSIVE fold_refined_right(_, _, _)
fold_refined_right(refined, mappings, cm) ==
  IF refined = << >> THEN mappings
  ELSE fold_refined_right(SubSeq(refined, 1, Len(refined) - 1),
                          merge(mappings, cm[refined[Len(refined)]].map), cm)

\* a fold that goes on to merge every concept map instantiated so far
RECURSIVE fold_refined_everything(_, _, _)
fold_refined_everything(refined, mappings, cm) ==
  IF refined = << >>
  THEN LET RECURSIVE rest(_, _)
           rest(todo, acc) ==
             IF todo = << >> THEN acc
             ELSE rest(Tail(todo), IF cm[Head(todo)].st = "ok"
                                   THEN merge(acc, cm[Head(todo)].map) ELSE acc)
       IN rest(<<"R", "A", "S", "B">>, mappings)
  ELSE fold_refined_everything(Tail(refined), merge(mappings, cm[Head(refined)].map), cm)

\* fold_left(refined, mappings_, [](auto mappings, auto c) {
\*   return detail::merge(mappings, te::concept_map<C, T>.map_); })
RECURSIVE fold_refined(_, _, _)
fold_refined(refined, mappings, cm) ==
  IF refined = << >> THEN mappings
  ELSE fold_refined(Tail(refined), merge(mappings, cm[Head(refined)].map), cm)

\* The first refined concept, in declaration order, whose concept map failed
FirstFailed(refined, cm) ==
  LET i == CHOOSE i \in DOMAIN refined :
             /\ cm[refined[i]].st # "ok"
             /\ \A j \in 1..(i-1) : cm[refined[j]].st = "ok"
  IN cm[refined[i]]

RefinedOk(refined, cm) == \A i \in DOMAIN refined : cm[refined[i]].st = "ok"

\* no check at all: the static_assert never fires
always_satisfied(c, merged) == TRUE

\* is_subset with its arguments exchanged
only_functions_of_concept(c, merged) == DOMAIN merged \subseteq all_clauses(c)

\* boost::hana::is_subset(keys(Concept::all_clauses()), keys(merged))
all_functions_satisfied(c, merged) == all_clauses(c) \subseteq DOMAIN merged

\* make_concept_map that goes by its own check alone, whatever became of the
\* maps it reads
make_concept_map_own_check(c, mappings, cm, dm) ==
  LET mappings_ == merge(mappings, dm[c].map)
      merged    == fold_refined(refined_concepts(c), mappings_, cm)
  IN IF all_functions_satisfied(c, merged)
     THEN concept_map_t(c, merged)
     ELSE static_assert_failed(c, mappings)

\* te::make_concept_map<Concept, T>(mappings...), reading the instantiated
\* default_concept_map<Concept, T> (dm) and concept_map<C, T> of the refined
\* concepts (cm)
make_concept_map(c, mappings, cm, dm) ==
  LET refined == refined_concepts(c) IN
  IF dm[c].st # "ok" THEN dm[c]
  ELSE IF ~RefinedOk(refined, cm) THEN FirstFailed(refined, cm)
  ELSE LET mappings_ == merge(mappings, dm[c].map)
           merged    == fold_refined(refined, mappings_, cm)
       IN IF all_functions_satisfied(c, merged)
          THEN concept_map_t(c, merged)
          ELSE static_assert_failed(c, mappings)

\* make_default_concept_map with the completeness check of make_concept_map
make_default_concept_map_checked(c, mappings, cm) ==
  LET refined == refined_concepts(c) IN
  IF ~RefinedOk(refined, cm) THEN FirstFailed(refined, cm)
  ELSE LET merged == fold_refined(refined, mappings, cm)
       IN IF all_functions_satisfied(c, merged)
          THEN concept_map_t(c, merged)
          ELSE static_assert_failed(c, mappings)

\* te::make_default_concept_map<Concept, T>(mappings...)
make_default_concept_map(c, mappings, cm) ==
  LET refined == refined_concepts(c) IN
  IF ~RefinedOk(refined, cm) THEN FirstFailed(refined, cm)
  ELSE concept_map_t(c, fold_refined(refined, mappings, cm))

----------------------------------------------------------------------------
\* Instantiation of the variable templates

\* a specialization initialized anew each time it is named
ReinstantiateAlways(v) == TRUE

\* Whether a specialization is instantiated again when it is named
Reinstantiate(v) == v.st = "none"

\* S is a record [cm, dm, n] of the instantiated specializations and the
\* number of initializations of each concept_map.
RECURSIVE InstantiateCM(_, _), InstantiateDM(_, _), InstantiateAll(_, _)

\* naming te::concept_map<c, T>
InstantiateCM(S, c) ==
  IF ~Reinstantiate(S.cm[c]) THEN S
  ELSE LET S1 == InstantiateDM(S, c)
           S2 == InstantiateAll(S1, refined_concepts(c))
           v  == make_concept_map(c, make_map(c, "concept_map", custom[c]), S2.cm, S2.dm)
       IN [S2 EXCEPT !.cm[c] = v, !.n[c] = @ + 1]

\* naming te::default_concept_map<c, T>
InstantiateDM(S, c) ==
  IF S.dm[c].st # "none" THEN S
  ELSE LET S1 == InstantiateAll(S, refined_concepts(c))
           v  == make_default_concept_map(c, make_map(c, "default_concept_map", dflt[c]), S1.cm)
       IN [S1 EXCEPT !.dm[c] = v]

\* naming te::concept_map<C, T> for each refined concept C, in order
InstantiateAll(S, refined) ==
  IF refined = << >> THEN S
  ELSE InstantiateAll(InstantiateCM(S, Head(refined)), Tail(refined))

Now == [cm |-> cmap, dm |-> dmap, n |-> constructed]

----------------------------------------------------------------------------
\* concept_map_t::operator[]

\* get_function(name, hana::true_) returns at_key(map_, name);
\* get_function(name, hana::false_) is a static_assert whose diagnostic shows
\* concept_map_t<CONCEPT, MODEL, CONTENTS OF CONCEPT MAP>::get_function<FUNCTION NAME>
get_function(m, name, contains) ==
  IF contains
  THEN [st |-> "value", value |-> m.map[name], name |-> name,
        concept |-> m.concept, type |-> m.type, available |-> {}]
  ELSE [st |-> "error", value |-> Impl("R", "none", "f"), name |-> name,
        concept |-> m.concept, type |-> m.type, available |-> DOMAIN m.map]

\* operator[] dispatching on what the concept requires
subscript_required(m, name) == get_function(m, name, name \in all_clauses(m.concept))

subscript(m, name) == get_function(m, name, name \in DOMAIN m.map)

----------------------------------------------------------------------------
\* The state machine

NoCall == [op |-> "none", c |-> "", m |-> {}, name |-> "", result |-> NotInstantiated]

BindingSlots == Concepts \X {"concept_map", "default_concept_map"} \X Names

\* Nothing is instantiated; the specializations written in the program bind
\* at most k names
InitBounded(k) ==
  /\ \E chosen \in SUBSET BindingSlots :
       /\ Cardinality(chosen) <= k
       /\ custom = [c \in Concepts |-> { n \in Names : <<c, "concept_map", n>> \in chosen }]
       /\ dflt = [c \in Concepts |-> { n \in Names : <<c, "default_concept_map", n>> \in chosen }]
  /\ refines \in RefinementGraphs
  /\ cmap = [c \in Concepts |-> NotInstantiated]
  /\ dmap = [c \in Concepts |-> NotInstantiated]
  /\ constructed = [c \in Concepts |-> 0]
  /\ last = NoCall

Init == InitBounded(MaxBindings)

InitCalls == InitBounded(MaxCallBindings)

\* The program names te::concept_map<c, T>
UseConceptMap(c) ==
  /\ cmap[c].st = "none"
  /\ LET S == InstantiateCM(Now, c)
     IN /\ cmap' = S.cm
        /\ dmap' = S.dm
        /\ constructed' = S.n
  /\ UNCHANGED <<custom, dflt, refines, last>>

\* The program names te::default_concept_map<c, T>
UseDefaultConceptMap(c) ==
  /\ dmap[c].st = "none"
  /\ LET S == InstantiateDM(Now, c)
     IN /\ cmap' = S.cm
        /\ dmap' = S.dm
        /\ constructed' = S.n
  /\ UNCHANGED <<custom, dflt, refines, last>>

\* te::concept_map<c, T>[name]
Lookup(c, name) ==
  /\ cmap[c].st = "ok"
  /\ last' = [op |-> "operator[]", c |-> c, m |-> {}, name |-> name,
              result |-> subscript(cmap[c], name)]
  /\ UNCHANGED <<custom, dflt, refines, cmap, dmap, constructed>>

\* The program evaluates the initializer of te::concept_map<c, T> a second
\* time: te::make_concept_map<c, T>(mappings...) with the same mappings
Rebuild(c) ==
  /\ cmap[c].st # "none"
  /\ last' = [op |-> "make_concept_map", c |-> c, m |-> custom[c], name |-> "",
              result |-> make_concept_map(c, make_map(c, "concept_map", custom[c]), cmap, dmap)]
  /\ UNCHANGED <<custom, dflt, refines, cmap, dmap, constructed>>

\* The program calls te::make_default_concept_map<c, T>(mappings...) itself,
\* with function objects of its own for some names m
CallMakeDefaultConceptMap(c) ==
  /\ LET S == InstantiateAll(Now, refined_concepts(c))
     IN /\ cmap' = S.cm
        /\ dmap' = S.dm
        /\ constructed' = S.n
        /\ \E m \in SUBSET Names :
             last' = [op |-> "make_default_concept_map", c |-> c, m |-> m, name |-> "",
                      result |-> make_default_concept_map(c, make_map(c, "call", m), S.cm)]
  /\ UNCHANGED <<custom, dflt, refines>>

Next ==
  \/ \E c \in Concepts : UseConceptMap(c)
  \/ \E c \in Concepts : UseDefaultConceptMap(c)
  \/ \E c \in Concepts, name \in Names : Lookup(c, name)

Spec == Init /\ [][Next]_vars

\* A program that also evaluates initializers of te::concept_map again
NextRebuild ==
  \/ \E c \in Concepts : UseConceptMap(c)
  \/ \E c \in Concepts : UseDefaultConceptMap(c)
  \/ \E c \in Concepts : Rebuild(c)

SpecRebuild == Init /\ [][NextRebuild]_vars

\* A program that also calls te::make_default_concept_map directly
NextDefault ==
  \/ \E c \in Concepts : UseConceptMap(c)
  \/ \E c \in Concepts : UseDefaultConceptMap(c)
  \/ \E c \in Concepts : CallMakeDefaultConceptMap(c)

SpecDefault == InitCalls /\ [][NextDefault]_vars

----------------------------------------------------------------------------
\* Vocabulary of the properties

Instantiated(c) == cmap[c].st # "none"
Built(c)        == cmap[c].st = "ok"

\* make_concept_map<c, T>'s own static_assert fired (not one of a map it reads)
CheckFailed(c)  == cmap[c].st = "error" /\ cmap[c].concept = c

Refined(c) == Range(refines[c])

KeysOf(v) == IF v.st = "ok" THEN DOMAIN v.map ELSE {}

\* keys of the merge of the explicit bindings, the default map for (c, T) and
\* the resolved maps of the directly refined concepts
MergedKeys(c) ==
  custom[c] \cup KeysOf(dmap[c]) \cup UNION { KeysOf(cmap[r]) : r \in Refined(c) }

Missing(c) == all_clauses(c) \ MergedKeys(c)

\* C1 (as stated): build(C, T, m) succeeds iff the keys of the merged map cover
\* C.all_clauses(); a returned map covers them; a failure returns no map.
C1_Stated ==
  \A c \in Concepts : Instantiated(c) =>
    /\ Built(c) <=> all_clauses(c) \subseteq MergedKeys(c)
    /\ Built(c) => all_clauses(c) \subseteq DOMAIN cmap[c].map
    /\ ~Built(c) => cmap[c].map = EmptyMap

\* C1 (amended): build(C, T, m) succeeds iff the concept map of every directly
\* refined concept was built and the keys of the merged map cover
\* C.all_clauses(); a returned map covers them; a failure returns no map.
C1_Completeness ==
  \A c \in Concepts : Instantiated(c) =>
    /\ Built(c) <=> /\ \A r \in Refined(c) : Built(r)
                    /\ all_clauses(c) \subseteq MergedKeys(c)
    /\ Built(c) => all_clauses(c) \subseteq DOMAIN cmap[c].map
    /\ ~Built(c) => cmap[c].map = EmptyMap

\* a build that passed, with explicit bindings and refined concepts, next to
\* one whose completeness check failed
C1_Witness ==
  /\ \E c \in Concepts : Built(c) /\ Refined(c) # {} /\ custom[c] # {}
  /\ \E c \in Concepts : CheckFailed(c)

\* C2: in a built map every name is bound by the highest-precedence source
\* that binds it: the explicit bindings, else the default map for (c, T),
\* else a directly refined concept's resolved map.
C2_Precedence ==
  \A c \in Concepts : Built(c) =>
    /\ DOMAIN cmap[c].map = MergedKeys(c)
    /\ \A n \in DOMAIN cmap[c].map :
         IF n \in custom[c]
           THEN cmap[c].map[n] = Impl(c, "concept_map", n)
         ELSE IF n \in DOMAIN dmap[c].map
           THEN cmap[c].map[n] = dmap[c].map[n]
         ELSE \E r \in Refined(c) :
                n \in DOMAIN cmap[r].map /\ cmap[c].map[n] = cmap[r].map[n]

\* an explicit binding that overrides a different binding of the default map
\* and of a refined concept
C2_Witness ==
  \E c \in Concepts, n \in Names :
    /\ Built(c) /\ n \in custom[c]
    /\ n \in DOMAIN dmap[c].map
    /\ \E r \in Refined(c) : n \in DOMAIN cmap[r].map
    /\ cmap[c].map[n] # dmap[c].map[n]

FirstBinding(c, n) ==
  CHOOSE i \in DOMAIN refines[c] :
    /\ n \in DOMAIN cmap[refines[c][i]].map
    /\ \A j \in 1..(i-1) : n \notin DOMAIN cmap[refines[c][j]].map

\* C4: when two directly refined concepts bind a name differently and neither
\* the explicit bindings nor the bindings written for the default map of (c, T)
\* bind it, the built map takes it from the refined concept declared first.
C4_EarlierDeclaredWins ==
  \A c \in Concepts, n \in Names :
    ( /\ Built(c)
      /\ n \notin custom[c] /\ n \notin dflt[c]
      /\ \E i, j \in DOMAIN refines[c] :
           /\ i < j
           /\ n \in DOMAIN cmap[refines[c][i]].map
           /\ n \in DOMAIN cmap[refines[c][j]].map
           /\ cmap[refines[c][i]].map[n] # cmap[refines[c][j]].map[n] )
    => cmap[c].map[n] = cmap[refines[c][FirstBinding(c, n)]].map[n]

\* B declares S before A, both bind g differently, and B's map has S's g
C4_Witness ==
  /\ refines["B"] = <<"S", "A">>
  /\ Built("B") /\ "g" \notin custom["B"] /\ "g" \notin dflt["B"]
  /\ "g" \in DOMAIN cmap["S"].map /\ "g" \in DOMAIN cmap["A"].map
  /\ cmap["S"].map["g"] # cmap["A"].map["g"]
  /\ cmap["B"].map["g"] = cmap["S"].map["g"]

\* C5: if b refines a and a refines r, the map built for (b, T) binds every
\* name of r's resolved map, and to r's implementation unless b or a bind the
\* name in their own explicit or default bindings, or a refined concept that b
\* declares before a binds it.
C5_Transitivity ==
  \A b \in Concepts : Built(b) =>
    \A i \in DOMAIN refines[b] :
      LET a == refines[b][i] IN
      \A r \in Refined(a) :
        \A n \in DOMAIN cmap[r].map :
          /\ n \in DOMAIN cmap[b].map
          /\ \/ cmap[b].map[n] = cmap[r].map[n]
             \/ n \in custom[b] \cup dflt[b] \cup custom[a] \cup dflt[a]
             \/ \E j \in 1..(i-1) : n \in DOMAIN cmap[refines[b][j]].map
             \/ \E r2 \in Refined(a) : r2 # r /\ n \in DOMAIN cmap[r2].map

\* B's map holds R's f, which neither B nor A binds
C5_Witness ==
  /\ Built("B") /\ "f" \in DOMAIN cmap["R"].map
  /\ "f" \notin custom["B"] \cup dflt["B"] \cup custom["A"] \cup dflt["A"]
  /\ cmap["B"].map["f"] = cmap["R"].map["f"]
  /\ cmap["B"].map["f"] = Impl("R", "concept_map", "f")

\* C7: operator[] on a built map returns the implementation bound to a name
\* that is a key, which every name of all_clauses is; for any other name it
\* returns nothing and fails, the diagnostic showing the name, the concept, the
\* type and the names of the map.
C7_Lookup ==
  last.op = "operator[]" =>
    LET m == cmap[last.c] IN
    /\ Built(last.c)
    /\ last.name \in all_clauses(last.c) => last.result.st = "value"
    /\ IF last.name \in DOMAIN m.map
       THEN /\ last.result.st = "value"
            /\ last.result.value = m.map[last.name]
       ELSE /\ last.result.st = "error"
            /\ last.result.name = last.name
            /\ last.result.concept = last.c
            /\ last.result.type = T
            /\ last.result.available = DOMAIN m.map

\* a lookup of a name that the map, which binds another name, does not bind
C7_Witness ==
  /\ last.op = "operator[]" /\ last.result.st = "error"
  /\ last.result.available # {}
  /\ last.name \notin DOMAIN cmap[last.c].map

C10_RefinedMustBuild ==
  \A c \in Concepts :
    /\ Built(c) => \A r \in Refined(c) : Built(r)
    /\ dmap[c].st = "ok" => \A r \in Refined(c) : Built(r)
    /\ \A r \in Refined(c) :
         (Instantiated(c) /\ Missing(r) # {}) => ~Built(r) /\ ~Built(c)

\* c binds every clause itself, a refined concept lacks one that only c's
\* explicit bindings bind, and the build of c fails
C10_Witness ==
  \E c \in Concepts, n \in Names : \E r \in Refined(c) :
    /\ Instantiated(c) /\ ~Built(c)
    /\ all_clauses(c) \subseteq custom[c]
    /\ n \in custom[c] /\ n \in Missing(r)

\* the value of te::default_concept_map<c, T>, instantiated or not
DefaultMapFor(c) ==
  make_default_concept_map(c, make_map(c, "default_concept_map", dflt[c]), cmap)

====
